---- MODULE Spec2Model ----
(***************************************************************************)
(* Provider dispatch and streaming normalisation engine of LLMstudio:      *)
(* BaseProvider.chat / achat (the retry loop), handle_response,            *)
(* handle_response_stream (a generator, modelled at its yield points),     *)
(* join_chunks and the metrics functions of                                *)
(* libs/core/llmstudio_core/providers/provider.py.                         *)
(*                                                                         *)
(* Conventions.  A Python str is a sequence of one-character strings       *)
(* (<<"g","4">> is "g4"), so that startswith, join and len are computed.   *)
(* Python None is None in a str-valued field, NoneRec in an object-valued  *)
(* field, "None" in finish_reason and NoneInt in an int-valued field.      *)
(* Money is counted in integer price units, time in integer clock ticks;   *)
(* an upstream invocation is network I/O and lasts at least one tick.      *)
(* Envelope fields that only echo the request or are fresh on every        *)
(* emission (id, context, timestamp, parameters) are not part of the       *)
(* modelled envelope.                                                      *)
(***************************************************************************)
EXTENDS Integers, Sequences, FiniteSets, TLC

VARIABLES
    provider,            \* the provider object: config.id and class name
    request,             \* the ChatRequest of the call
    pc,                  \* position of the call
    attempt,             \* index of the retry loop of chat / achat
    outcomes,            \* what each generate_client invocation did, in order
    response,            \* the upstream completion of a non-stream call
    emitted,             \* envelopes handed to the caller, in order
    error,               \* the exception the call ended with
    now,                 \* the wall clock, time.time()
    start_time,          \* start_time of the current attempt
    first_token_time,    \* locals of handle_response_stream
    previous_token_time,
    token_times,
    token_count,
    chunks,
    chunk,               \* the loop variable of handle_response_stream
    joined,              \* what join_chunks returned to handle_response_stream
    pricing,             \* the token_cost schedule handed to calculate_cost
    cost,                \* what calculate_cost returned
    input_string,        \* what input_to_string returned
    llm,                 \* the LLM object of the batch client: failed_requests, pause
    batch                \* a batch_chat_coroutine call: its semaphore and its tasks

vars == <<provider, request, pc, attempt, outcomes, response, emitted, error,
          now, start_time, first_token_time, previous_token_time, token_times,
          token_count, chunks, chunk, joined, pricing, cost, input_string,
          llm, batch>>

streamLocals == <<first_token_time, previous_token_time, token_times,
                  token_count, chunks, chunk>>

costLocals == <<pricing, cost>>

batchVars == <<llm, batch>>

---------------------------------------------------------------------------
(* Bounds of the model *)

MaxRetries == 2
NegRetries == 1
MaxChunks == 3

---------------------------------------------------------------------------
(* Python values *)

None == <<"None">>
NoneRec == [none |-> TRUE]
NoneInt == 0 - 1
NoTime == 0

Truthy(s) == s /= None /\ s /= <<>>

\* str.startswith
StartsWith(s, prefix) ==
    /\ Len(prefix) <= Len(s)
    /\ SubSeq(s, 1, Len(prefix)) = prefix

\* tokenizer.encode: one token per character
Encode(s) == s

NoError == [kind |-> "none", status |-> 0, detail |-> "none"]
Raise(kind, status, detail) == [kind |-> kind, status |-> status, detail |-> detail]

---------------------------------------------------------------------------
(* Provider configuration: the model catalog *)

Scalar(c) == [kind |-> "scalar", cost |-> c, ranges |-> <<>>]
Tiered(rs) == [kind |-> "tiered", cost |-> 0, ranges |-> rs]
Range(lo, hi, c) == [lo |-> lo, hi |-> hi, cost |-> c]

ModelG == <<"g">>
ModelG4 == <<"g", "4">>
ModelG4x == <<"g", "4", "x">>
ModelOther == <<"4">>

\* config.models: the catalogued models and their prices
ConfigModels ==
    [m \in {ModelG4} |->
        [input_token_cost |-> Scalar(2),
         output_token_cost |-> Tiered(<<Range(0, 2, 4), Range(3, NoneInt, 1)>>)]]

Providers ==
    {[id |-> "openai", class |-> "OpenAIProvider"],
     [id |-> "cohere", class |-> "CohereProvider"]}

---------------------------------------------------------------------------
(* A computation that may raise: [raised, value], raised = "none" or the   *)
(* Python exception type.                                                  *)

Ok(v) == [raised |-> "none", value |-> v]
Raised(kind) == [raised |-> kind, value |-> NoneRec]

\* A float: numerator over a positive denominator
Rat(n, d) == [num |-> n, den |-> d]

RECURSIVE Sum(_)
Sum(s) == IF s = <<>> THEN 0 ELSE Head(s) + Sum(Tail(s))

\* "".join(parts)
RECURSIVE Join(_)
Join(parts) == IF parts = <<>> THEN <<>> ELSE Head(parts) \o Join(Tail(parts))

---------------------------------------------------------------------------
(* calculate_cost.  Comparing an int with None (token_count <=             *)
(* cost_range.range[1] with range[1] None) raises TypeError before         *)
(* "range[1] is None" is evaluated.                                        *)

RECURSIVE CostOverRanges(_, _, _)
CostOverRanges(n_tokens, ranges, i) ==
    IF i > Len(ranges)
    THEN Ok(0)
    ELSE IF n_tokens >= ranges[i].lo
         THEN IF ranges[i].hi = NoneInt
              THEN Raised("TypeError")
              ELSE IF n_tokens <= ranges[i].hi
                   THEN Ok(ranges[i].cost * n_tokens)
                   ELSE CostOverRanges(n_tokens, ranges, i + 1)
         ELSE CostOverRanges(n_tokens, ranges, i + 1)

calculate_cost(n_tokens, token_cost) ==
    IF token_cost.kind = "tiered"
    THEN CostOverRanges(n_tokens, token_cost.ranges, 1)
    ELSE Ok(token_cost.cost * n_tokens)

---------------------------------------------------------------------------
(* calculate_metrics (non-stream) *)

calculate_metrics_reported_total(usage, model, t_start, t_end) ==
    LET model_config == ConfigModels[model]
        input_tokens == usage.prompt_tokens
        output_tokens == usage.completion_tokens
        input_cost == calculate_cost(input_tokens, model_config.input_token_cost)
        output_cost == calculate_cost(output_tokens, model_config.output_token_cost)
        total_time == t_end - t_start
    IN  IF input_cost.raised /= "none" THEN Raised(input_cost.raised)
        ELSE IF output_cost.raised /= "none" THEN Raised(output_cost.raised)
        ELSE IF total_time = 0 THEN Raised("ZeroDivisionError")
        ELSE Ok([input_tokens |-> input_tokens,
                 output_tokens |-> output_tokens,
                 total_tokens |-> usage.total_tokens,
                 cost_usd |-> input_cost.value + output_cost.value,
                 latency_s |-> total_time,
                 time_to_first_token_s |-> NoneRec,
                 inter_token_latency_s |-> NoneRec,
                 tokens_per_second |-> Rat(usage.total_tokens, total_time)])

calculate_metrics(usage, model, t_start, t_end) ==
    LET model_config == ConfigModels[model]
        input_tokens == usage.prompt_tokens
        output_tokens == usage.completion_tokens
        input_cost == calculate_cost(input_tokens, model_config.input_token_cost)
        output_cost == calculate_cost(output_tokens, model_config.output_token_cost)
        total_time == t_end - t_start
    IN  IF input_cost.raised /= "none" THEN Raised(input_cost.raised)
        ELSE IF output_cost.raised /= "none" THEN Raised(output_cost.raised)
        ELSE IF total_time = 0 THEN Raised("ZeroDivisionError")
        ELSE Ok([input_tokens |-> input_tokens,
                 output_tokens |-> output_tokens,
                 total_tokens |-> input_tokens + output_tokens,
                 cost_usd |-> input_cost.value + output_cost.value,
                 latency_s |-> total_time,
                 time_to_first_token_s |-> NoneRec,
                 inter_token_latency_s |-> NoneRec,
                 tokens_per_second |-> Rat(usage.total_tokens, total_time)])

---------------------------------------------------------------------------
(* input_to_string and output_to_string.  A chat_input is Str(s) or        *)
(* Messages(seq); a message content is Str(s), Parts(seq) or NoneRec.  A   *)
(* str keeps its characters in value, a list its elements in items.        *)

Str(s) == [type |-> "str", value |-> s]
Messages(ms) == [type |-> "list", items |-> ms]
Parts(ps) == [type |-> "list", items |-> ps]
TextPart(t) == [type |-> "text", text |-> t, url |-> <<>>]
ImagePart(u) == [type |-> "image_url", text |-> <<>>, url |-> u]

RECURSIVE PartsToString(_)
PartsToString(items) ==
    IF items = <<>> THEN <<>>
    ELSE LET item == Head(items)
         IN  (IF item.type = "text" THEN item.text
              ELSE IF item.type = "image_url" THEN item.url
              ELSE <<>>) \o PartsToString(Tail(items))

RECURSIVE MessagesToStringAnyRole(_)
MessagesToStringAnyRole(ms) ==
    IF ms = <<>> THEN <<>>
    ELSE LET message == Head(ms)
         IN  (IF message.content = NoneRec THEN <<>>
              ELSE IF message.content.type = "str" THEN message.content.value
              ELSE PartsToString(message.content.items))
                 \o MessagesToStringAnyRole(Tail(ms))

RECURSIVE MessagesToString(_)
MessagesToString(ms) ==
    IF ms = <<>> THEN <<>>
    ELSE LET message == Head(ms)
         IN  (IF message.content = NoneRec THEN <<>>
              ELSE IF message.content.type = "str" THEN message.content.value
              ELSE IF message.role = "user" THEN PartsToString(message.content.items)
              ELSE <<>>) \o MessagesToString(Tail(ms))

input_to_string_with_newline(input) ==
    IF input.type = "str" THEN input.value \o <<"\n">> ELSE MessagesToString(input.items)

input_to_string(input) ==
    IF input.type = "str" THEN input.value ELSE MessagesToString(input.items)

\* None when no branch applies
output_to_string(output) ==
    IF output.finish_reason = "stop" THEN output.content
    ELSE IF output.finish_reason = "tool_calls" THEN output.tool_calls.function.arguments
    ELSE IF output.finish_reason = "function_call" THEN output.function_call.arguments
    ELSE None

---------------------------------------------------------------------------
(* calculate_metrics_stream *)

calculate_metrics_stream_first_from_epoch(input, output, model, t_start, t_end, t_first, times, count) ==
    LET model_config == ConfigModels[model]
        out_text == output_to_string(output)
        input_tokens == Len(Encode(input_to_string(input)))
        output_tokens == Len(Encode(out_text))
        input_cost == calculate_cost(input_tokens, model_config.input_token_cost)
        output_cost == calculate_cost(output_tokens, model_config.output_token_cost)
        total_time == t_end - t_start
    IN  IF out_text = None THEN Raised("TypeError")
        ELSE IF input_cost.raised /= "none" THEN Raised(input_cost.raised)
        ELSE IF output_cost.raised /= "none" THEN Raised(output_cost.raised)
        ELSE IF times = <<>> THEN Raised("ZeroDivisionError")
        ELSE IF total_time = 0 THEN Raised("ZeroDivisionError")
        ELSE Ok([input_tokens |-> input_tokens,
                 output_tokens |-> output_tokens,
                 total_tokens |-> input_tokens + output_tokens,
                 cost_usd |-> input_cost.value + output_cost.value,
                 latency_s |-> total_time,
                 time_to_first_token_s |-> Rat(t_first, 1),
                 inter_token_latency_s |-> Rat(Sum(times), Len(times)),
                 tokens_per_second |-> Rat(count, total_time)])

calculate_metrics_stream(input, output, model, t_start, t_end, t_first, times, count) ==
    LET model_config == ConfigModels[model]
        out_text == output_to_string(output)
        input_tokens == Len(Encode(input_to_string(input)))
        output_tokens == Len(Encode(out_text))
        input_cost == calculate_cost(input_tokens, model_config.input_token_cost)
        output_cost == calculate_cost(output_tokens, model_config.output_token_cost)
        total_time == t_end - t_start
    IN  IF out_text = None THEN Raised("TypeError")
        ELSE IF input_cost.raised /= "none" THEN Raised(input_cost.raised)
        ELSE IF output_cost.raised /= "none" THEN Raised(output_cost.raised)
        ELSE IF times = <<>> THEN Raised("ZeroDivisionError")
        ELSE IF total_time = 0 THEN Raised("ZeroDivisionError")
        ELSE Ok([input_tokens |-> input_tokens,
                 output_tokens |-> output_tokens,
                 total_tokens |-> input_tokens + output_tokens,
                 cost_usd |-> input_cost.value + output_cost.value,
                 latency_s |-> total_time,
                 time_to_first_token_s |-> Rat(t_first - t_start, 1),
                 inter_token_latency_s |-> Rat(Sum(times), Len(times)),
                 tokens_per_second |-> Rat(count, total_time)])

---------------------------------------------------------------------------
(* Upstream data.  A stream chunk carries choices[0].finish_reason and of  *)
(* choices[0].delta the content, tool_calls[0] and function_call.          *)

Chunk(model, finish_reason, content, tool_calls, function_call) ==
    [model |-> model, finish_reason |-> finish_reason, content |-> content,
     tool_calls |-> tool_calls, function_call |-> function_call]

ToolCallDelta(id, name, type, arguments) ==
    [id |-> id, function |-> [name |-> name, type |-> type, arguments |-> arguments]]

FunctionCallDelta(name, arguments) == [name |-> name, arguments |-> arguments]

Completion(model, finish_reason, content, tool_calls, function_call) ==
    [model |-> model, finish_reason |-> finish_reason, content |-> content,
     tool_calls |-> tool_calls, function_call |-> function_call]

Last(s) == s[Len(s)]

\* chunks[1:-1]
Middle(s) == SubSeq(s, 2, Len(s) - 1)

\* chunks[start_index:]
From(s, start_index) == SubSeq(s, start_index + 1, Len(s))

---------------------------------------------------------------------------
(* join_chunks: [raised, value], value = [completion, text].  Building the *)
(* pydantic objects validates them: id, name and model must be strings and *)
(* a tool call's type must be "function".                                  *)

ArgumentsOrEmpty(a) == IF a = None THEN <<>> ELSE a

JoinToolCallsWithHead(cs) ==
    LET mid == Middle(cs)
        tool_calls == [i \in 1..Len(mid) |-> mid[i].tool_calls]
        rest == tool_calls
        tool_call_arguments ==
            Join([i \in 1..Len(rest) |-> ArgumentsOrEmpty(rest[i].function.arguments)])
    IN  IF \E i \in 1..Len(mid) : mid[i].tool_calls = NoneRec THEN Raised("TypeError")
        ELSE IF mid = <<>> THEN Raised("IndexError")
        ELSE IF \/ tool_calls[1].id = None
                \/ tool_calls[1].function.name = None
                \/ tool_calls[1].function.type /= "function"
                \/ Last(cs).model = None
             THEN Raised("ValidationError")
        ELSE Ok([completion |->
                    Completion(Last(cs).model, "tool_calls", None,
                               [id |-> tool_calls[1].id,
                                type |-> tool_calls[1].function.type,
                                function |-> [name |-> tool_calls[1].function.name,
                                              arguments |-> tool_call_arguments]],
                               NoneRec),
                 text |-> tool_call_arguments])

JoinToolCalls(cs) ==
    LET mid == Middle(cs)
        tool_calls == [i \in 1..Len(mid) |-> mid[i].tool_calls]
        rest == Tail(tool_calls)
        tool_call_arguments ==
            Join([i \in 1..Len(rest) |-> ArgumentsOrEmpty(rest[i].function.arguments)])
    IN  IF \E i \in 1..Len(mid) : mid[i].tool_calls = NoneRec THEN Raised("TypeError")
        ELSE IF mid = <<>> THEN Raised("IndexError")
        ELSE IF \/ tool_calls[1].id = None
                \/ tool_calls[1].function.name = None
                \/ tool_calls[1].function.type /= "function"
                \/ Last(cs).model = None
             THEN Raised("ValidationError")
        ELSE Ok([completion |->
                    Completion(Last(cs).model, "tool_calls", None,
                               [id |-> tool_calls[1].id,
                                type |-> tool_calls[1].function.type,
                                function |-> [name |-> tool_calls[1].function.name,
                                              arguments |-> tool_call_arguments]],
                               NoneRec),
                 text |-> tool_call_arguments])

HasFunctionCall(c) == c.function_call /= NoneRec

JoinFunctionCall(cs) ==
    LET carrying == SelectSeq(Middle(cs), HasFunctionCall)
        function_calls == [i \in 1..Len(carrying) |-> carrying[i].function_call]
        function_call_arguments ==
            Join([i \in 1..Len(function_calls) |-> function_calls[i].arguments])
    IN  IF function_calls = <<>> THEN Raised("IndexError")
        ELSE IF \E i \in 1..Len(function_calls) : function_calls[i].arguments = None
             THEN Raised("TypeError")
        ELSE IF function_calls[1].name = None \/ Last(cs).model = None
             THEN Raised("ValidationError")
        ELSE Ok([completion |->
                    Completion(Last(cs).model, "function_call", None, NoneRec,
                               [name |-> function_calls[1].name,
                                arguments |-> function_call_arguments]),
                 text |-> function_call_arguments])

HasContent(c) == Truthy(c.content)

StartIndexZero(class) == 0

StartIndex(class) == IF class \in {"OpenAIProvider", "AzureProvider"} THEN 1 ELSE 0

JoinStopWithoutLast(cs, class) ==
    LET kept == SelectSeq(SubSeq(cs, StartIndex(class) + 1, Len(cs) - 1), HasContent)
        stop_content == Join([i \in 1..Len(kept) |-> kept[i].content])
    IN  IF Last(cs).model = None THEN Raised("ValidationError")
        ELSE Ok([completion |->
                    Completion(Last(cs).model, "stop", stop_content, NoneRec, NoneRec),
                 text |-> stop_content])

JoinStop(cs, class) ==
    LET kept == SelectSeq(From(cs, StartIndex(class)), HasContent)
        stop_content == Join([i \in 1..Len(kept) |-> kept[i].content])
    IN  IF Last(cs).model = None THEN Raised("ValidationError")
        ELSE Ok([completion |->
                    Completion(Last(cs).model, "stop", stop_content, NoneRec, NoneRec),
                 text |-> stop_content])

join_chunks_unknown_as_stop(cs, class) ==
    LET finish_reason == Last(cs).finish_reason
    IN  IF finish_reason = "tool_calls" THEN JoinToolCalls(cs)
        ELSE IF finish_reason = "function_call" THEN JoinFunctionCall(cs)
        ELSE JoinStop(cs, class)

\* An unknown finish_reason falls through: join_chunks returns None
join_chunks(cs, class) ==
    LET finish_reason == Last(cs).finish_reason
    IN  IF finish_reason = "tool_calls" THEN JoinToolCalls(cs)
        ELSE IF finish_reason = "function_call" THEN JoinFunctionCall(cs)
        ELSE IF finish_reason \in {"stop", "length"} THEN JoinStop(cs, class)
        ELSE Ok(NoneRec)

---------------------------------------------------------------------------
(* The envelope *)

envelope_model_upstream_wins(requested, model) ==
    IF Truthy(model) /\ StartsWith(model, requested) THEN model ELSE requested

envelope_model(requested, model) ==
    IF Truthy(model) /\ StartsWith(model, requested)
    THEN requested
    ELSE IF Truthy(model) THEN model ELSE requested

envelope_deployment(requested, model) ==
    IF Truthy(model) /\ StartsWith(model, requested)
    THEN model
    ELSE IF model /= requested THEN requested ELSE None

envelope_chat_input(input) ==
    IF input.type = "str" THEN input ELSE Last(input.items).content

Envelope(req, prov, model, chat_output, metrics) ==
    [chat_input |-> envelope_chat_input(req.chat_input),
     chat_output |-> chat_output,
     provider |-> prov.id,
     model |-> envelope_model(req.model, model),
     deployment |-> envelope_deployment(req.model, model),
     metrics |-> metrics]

handle_response_without_output(req, prov, resp, t_start, t_end) ==
    LET metrics == calculate_metrics(resp.usage, req.model, t_start, t_end)
    IN  IF metrics.raised /= "none" THEN Raised(metrics.raised)
        ELSE Ok(Envelope(req, prov, resp.model, None, metrics.value))

\* handle_response / ahandle_response: [raised, value]
handle_response(req, prov, resp, t_start, t_end) ==
    LET metrics == calculate_metrics(resp.usage, req.model, t_start, t_end)
    IN  IF metrics.raised /= "none" THEN Raised(metrics.raised)
        ELSE Ok(Envelope(req, prov, resp.model, resp.content, metrics.value))

ChunkEnvelopeWithMetrics(req, prov, c) ==
    Envelope(req, prov, c.model, c.content, [input_tokens |-> 0])

\* the per-chunk envelope of handle_response_stream
ChunkEnvelope(req, prov, c) == Envelope(req, prov, c.model, c.content, NoneRec)

HasModelIfPresent(c) == c.model /= None

HasModel(c) == Truthy(c.model)

FinishStreamLastModel(req, prov, cs, t_start, t_end, t_first, times, count) ==
    LET with_model == SelectSeq(cs, HasModel)
        synthesized == join_chunks(cs, prov.class)
        metrics == calculate_metrics_stream(req.chat_input, synthesized.value.completion,
                                            req.model, t_start, t_end, t_first,
                                            times, count)
    IN  IF with_model = <<>> THEN Raised("RuntimeError")
        ELSE IF synthesized.raised /= "none" THEN Raised(synthesized.raised)
        ELSE IF synthesized.value = NoneRec THEN Raised("TypeError")
        ELSE IF metrics.raised /= "none" THEN Raised(metrics.raised)
        ELSE Ok(Envelope(req, prov, Last(with_model).model, None, metrics.value))

\* what handle_response_stream does once the upstream stream has ended
FinishStream(req, prov, cs, t_start, t_end, t_first, times, count) ==
    LET with_model == SelectSeq(cs, HasModel)
        synthesized == join_chunks(cs, prov.class)
        metrics == calculate_metrics_stream(req.chat_input, synthesized.value.completion,
                                            req.model, t_start, t_end, t_first,
                                            times, count)
    IN  IF with_model = <<>> THEN Raised("RuntimeError")
        ELSE IF synthesized.raised /= "none" THEN Raised(synthesized.raised)
        ELSE IF synthesized.value = NoneRec THEN Raised("TypeError")
        ELSE IF metrics.raised /= "none" THEN Raised(metrics.raised)
        ELSE Ok(Envelope(req, prov, with_model[1].model, None, metrics.value))

---------------------------------------------------------------------------
(* Inputs: requests, and what the upstream may do *)

Requests ==
    [flavor : {"chat", "achat"},
     model : {ModelG4, ModelOther},
     chat_input : {Str(<<"h", "i">>)},
     is_stream : BOOLEAN,
     retries : (0 - NegRetries)..MaxRetries,
     well_formed : BOOLEAN]

\* what generate_client / agenerate_client may raise
UpstreamErrors ==
    {Raise("HTTPException", 429, "rate limit"),
     Raise("HTTPException", 401, "unauthorized"),
     Raise("HTTPException", 500, "server error"),
     Raise("Exception", 0, "connection")}

\* what pulling the next chunk of the upstream stream may raise
StreamErrors ==
    {Raise("HTTPException", 429, "rate limit"),
     Raise("Exception", 0, "connection")}

UpstreamModels == {None, <<>>, ModelG, ModelG4, ModelG4x, ModelOther}

Usages ==
    {[prompt_tokens |-> p, completion_tokens |-> c, total_tokens |-> p + c + x] :
        p \in {1}, c \in {1, 3}, x \in {0, 1}}

\* upstream one-shot completions: model, choices[0].message.content, usage
Completions ==
    [model : UpstreamModels, content : {None, <<"H", "i">>}, usage : Usages]

TextChunk(model, content) == Chunk(model, "None", content, NoneRec, NoneRec)
Marker(model, finish_reason, content) ==
    Chunk(model, finish_reason, content, NoneRec, NoneRec)

StreamChunks ==
    {TextChunk(<<>>, <<>>),
     TextChunk(ModelG4x, <<"a">>),
     TextChunk(ModelG4, <<"b">>),
     Marker(ModelG, "stop", <<"c">>),
     Marker(ModelOther, "length", None),
     Marker(ModelG4, "content_filter", None),
     Marker(ModelG4, "tool_calls", None),
     Chunk(None, "None", None,
           ToolCallDelta(<<"1">>, <<"f">>, "function", <<"{">>), NoneRec),
     Marker(ModelG4, "function_call", None),
     Chunk(ModelG4, "None", None, NoneRec, FunctionCallDelta(<<"f">>, <<"{">>))}

\* ticks an upstream invocation takes (network I/O: the clock moves on)
AttemptDelays == {1}
\* ticks between two chunks
ChunkDelays == {1}

---------------------------------------------------------------------------
(* The call: chat / achat *)

Init ==
    /\ provider \in Providers
    /\ request \in Requests
    /\ pc = "new"
    /\ attempt = 0
    /\ outcomes = <<>>
    /\ response = NoneRec
    /\ emitted = <<>>
    /\ error = NoError
    /\ now = 1
    /\ start_time = NoTime
    /\ first_token_time = NoTime
    /\ previous_token_time = NoTime
    /\ token_times = <<>>
    /\ token_count = 0
    /\ chunks = <<>>
    /\ chunk = NoneRec
    /\ joined = NoneRec
    /\ pricing = NoneRec
    /\ cost = NoneRec
    /\ llm = NoneRec
    /\ batch = NoneRec
    /\ input_string = None

Fail(e) ==
    /\ pc' = "failed"
    /\ error' = e

ValidateWithoutCatalog ==
    /\ pc = "new"
    /\ IF ~request.well_formed
       THEN Fail(Raise("HTTPException", 422, "validation"))
       ELSE pc' = "dispatch" /\ error' = error
    /\ UNCHANGED <<provider, request, attempt, outcomes, response, emitted, now,
                   start_time, streamLocals, joined, costLocals, input_string, batchVars>>

\* validate_request (ValidationError -> 422), then validate_model (400)
Validate ==
    /\ pc = "new"
    /\ IF ~request.well_formed
       THEN Fail(Raise("HTTPException", 422, "validation"))
       ELSE IF request.model \notin DOMAIN ConfigModels
            THEN Fail(Raise("HTTPException", 400, "model not supported"))
            ELSE pc' = "dispatch" /\ error' = error
    /\ UNCHANGED <<provider, request, attempt, outcomes, response, emitted, now,
                   start_time, streamLocals, joined, costLocals, input_string, batchVars>>

LoopRunsOnceMore == attempt <= request.retries + 1

\* for _ in range(request.retries + 1)
LoopRuns == attempt < request.retries + 1

\* "except Exception" of chat and of achat
WrapException(flavor, detail) ==
    IF flavor = "chat"
    THEN Raise("ProviderError", 0, detail)
    ELSE Raise("HTTPException", 500, detail)

ExceptRetriesEveryHTTPException(e) ==
    IF e.kind = "HTTPException"
    THEN /\ attempt' = attempt + 1
         /\ UNCHANGED <<pc, error>>
    ELSE /\ Fail(WrapException(request.flavor, e.detail))
         /\ UNCHANGED attempt

\* the except clauses of the loop body, for an exception e raised in the try
Except(e) ==
    IF e.kind = "HTTPException"
    THEN IF e.status = 429
         THEN /\ attempt' = attempt + 1
              /\ UNCHANGED <<pc, error>>
         ELSE /\ Fail(e)
              /\ UNCHANGED attempt
    ELSE /\ Fail(WrapException(request.flavor, e.detail))
         /\ UNCHANGED attempt

\* an iteration in which generate_client raises
AttemptRaises ==
    /\ pc = "dispatch"
    /\ LoopRuns
    /\ \E d \in AttemptDelays, e \in UpstreamErrors :
        /\ start_time' = now
        /\ now' = now + d
        /\ outcomes' = Append(outcomes, e)
        /\ Except(e)
    /\ UNCHANGED <<provider, request, response, emitted, streamLocals, joined, costLocals, input_string, batchVars>>

\* an iteration in which generate_client returns, is_stream: the generator
\* handle_response_stream is returned, not yet started
AttemptStream ==
    /\ pc = "dispatch"
    /\ LoopRuns
    /\ request.is_stream
    /\ \E d \in AttemptDelays :
        /\ start_time' = now
        /\ now' = now + d
    /\ outcomes' = Append(outcomes, NoError)
    /\ pc' = "pull"
    /\ UNCHANGED <<provider, request, attempt, response, emitted, error, streamLocals, joined, costLocals, input_string, batchVars>>

\* an iteration in which generate_client returns, not is_stream:
\* handle_response runs inside the try
AttemptCompletion ==
    /\ pc = "dispatch"
    /\ LoopRuns
    /\ ~request.is_stream
    /\ \E d \in AttemptDelays, c \in Completions :
        LET handled == handle_response(request, provider, c, now, now + d)
        IN  /\ start_time' = now
            /\ now' = now + d
            /\ response' = c
            /\ IF handled.raised = "none"
               THEN /\ emitted' = Append(emitted, handled.value)
                    /\ pc' = "done"
                    /\ UNCHANGED <<attempt, error>>
               ELSE /\ Except(Raise(handled.raised, 0, "handle_response"))
                    /\ UNCHANGED emitted
    /\ outcomes' = Append(outcomes, NoError)
    /\ UNCHANGED <<provider, request, streamLocals, joined, costLocals, input_string, batchVars>>

ExhaustedAsServerError ==
    /\ pc = "dispatch"
    /\ ~LoopRuns
    /\ Fail(Raise("HTTPException", 500, "Too many requests"))
    /\ UNCHANGED <<provider, request, attempt, outcomes, response, emitted, now,
                   start_time, streamLocals, joined, costLocals, input_string, batchVars>>

\* the loop ran out: raise HTTPException(429, "Too many requests")
Exhausted ==
    /\ pc = "dispatch"
    /\ ~LoopRuns
    /\ Fail(Raise("HTTPException", 429, "Too many requests"))
    /\ UNCHANGED <<provider, request, attempt, outcomes, response, emitted, now,
                   start_time, streamLocals, joined, costLocals, input_string, batchVars>>

---------------------------------------------------------------------------
(* The generator handle_response_stream / ahandle_response_stream *)

EmitsEveryChunk(c) == TRUE

\* if chunk.get("choices")[0].get("finish_reason") != "stop"
EmitsChunk(c) == c.finish_reason /= "stop"

\* the loop header and body up to the yield: the next upstream chunk c
\* arrives d ticks after the previous event
StreamPull(alphabet, delays) ==
    /\ pc = "pull"
    /\ Len(chunks) < MaxChunks
    /\ \E c \in alphabet, d \in delays :
        LET current_time == now + d
        IN  /\ now' = current_time
            /\ token_count' = token_count + 1
            /\ first_token_time' =
                  IF first_token_time /= NoTime THEN first_token_time ELSE current_time
            /\ token_times' =
                  IF previous_token_time /= NoTime
                  THEN Append(token_times, current_time - previous_token_time)
                  ELSE token_times
            /\ previous_token_time' = current_time
            /\ chunks' = Append(chunks, c)
            /\ chunk' = c
            /\ pc' = IF EmitsChunk(c) THEN "yield" ELSE "pull"
    /\ UNCHANGED <<provider, request, attempt, outcomes, response, emitted, error,
                   start_time, joined, costLocals, input_string, batchVars>>

StreamYieldOutOfOrder ==
    /\ pc = "yield"
    /\ emitted' = <<ChunkEnvelope(request, provider, chunk)>> \o emitted
    /\ pc' = "pull"
    /\ UNCHANGED <<provider, request, attempt, outcomes, response, error, now,
                   start_time, streamLocals, joined, costLocals, input_string, batchVars>>

\* yield ChatCompletionChunk(**response) inside the loop
StreamYield ==
    /\ pc = "yield"
    /\ emitted' = Append(emitted, ChunkEnvelope(request, provider, chunk))
    /\ pc' = "pull"
    /\ UNCHANGED <<provider, request, attempt, outcomes, response, error, now,
                   start_time, streamLocals, joined, costLocals, input_string, batchVars>>

StreamRaisesReinvokes ==
    /\ pc = "pull"
    /\ \E e \in StreamErrors :
        IF e.kind = "HTTPException" /\ e.status = 429 /\ attempt < request.retries
        THEN /\ attempt' = attempt + 1
             /\ outcomes' = Append(outcomes, NoError)
             /\ UNCHANGED <<pc, error>>
        ELSE /\ Fail(e)
             /\ UNCHANGED <<attempt, outcomes>>
    /\ UNCHANGED <<provider, request, response, emitted, now,
                   start_time, streamLocals, joined, costLocals, input_string, batchVars>>

StreamRaisesIntoRetryLoop ==
    /\ pc = "pull"
    /\ \E e \in StreamErrors :
        IF e.kind = "HTTPException" /\ e.status = 429
        THEN /\ attempt' = attempt + 1
             /\ pc' = "dispatch"
             /\ UNCHANGED error
        ELSE /\ Fail(e)
             /\ UNCHANGED attempt
    /\ UNCHANGED <<provider, request, outcomes, response, emitted, now,
                   start_time, streamLocals, joined, costLocals, input_string, batchVars>>

\* the upstream raises while the next chunk is pulled: the exception leaves
\* the generator, outside the try of chat
StreamRaises ==
    /\ pc = "pull"
    /\ \E e \in StreamErrors : Fail(e)
    /\ UNCHANGED <<provider, request, attempt, outcomes, response, emitted, now,
                   start_time, streamLocals, joined, costLocals, input_string, batchVars>>

\* the upstream stream ends: the code after the loop, up to the last yield
StreamEnd ==
    /\ pc = "pull"
    /\ LET finished == FinishStream(request, provider, chunks, start_time, now,
                                    first_token_time, token_times, token_count)
       IN  IF finished.raised = "none"
           THEN /\ emitted' = Append(emitted, finished.value)
                /\ pc' = "done"
                /\ UNCHANGED error
           ELSE /\ Fail(Raise(finished.raised, 0, "handle_response_stream"))
                /\ UNCHANGED emitted
    /\ joined' = IF SelectSeq(chunks, HasModel) = <<>>
                 THEN joined
                 ELSE join_chunks(chunks, provider.class)
    /\ UNCHANGED <<provider, request, attempt, outcomes, response, now,
                   start_time, streamLocals, costLocals, input_string, batchVars>>

CancelFlushesMetrics ==
    /\ pc = "pull"
    /\ pc' = "cancelled"
    /\ emitted' = Append(emitted, Envelope(request, provider, None, None,
                                           [input_tokens |-> 0]))
    /\ UNCHANGED <<provider, request, attempt, outcomes, response, error,
                   now, start_time, streamLocals, joined, costLocals, input_string, batchVars>>

\* the consumer abandons the stream: close() on the generator suspended at a
\* yield (GeneratorExit), or cancellation of the task awaiting the next chunk.
\* handle_response_stream has no except or finally: nothing runs afterwards
Cancel ==
    /\ pc = "pull"
    /\ pc' = "cancelled"
    /\ UNCHANGED <<provider, request, attempt, outcomes, response, emitted, error,
                   now, start_time, streamLocals, joined, costLocals, input_string, batchVars>>

Next ==
    \/ Validate
    \/ AttemptRaises
    \/ AttemptStream
    \/ AttemptCompletion
    \/ Exhausted
    \/ StreamPull(StreamChunks, ChunkDelays)
    \/ StreamYield
    \/ StreamRaises
    \/ StreamEnd
    \/ Cancel

Spec == Init /\ [][Next]_vars

---------------------------------------------------------------------------
(* join_chunks on its own: a chunk list is drawn, then joined *)

\* longest content string, and most chunks before a function_call marker
MaxLen == 3
\* most tool-call chunks after the one that carries id, name and type
MaxFrags == 2

JoinProviders == Providers \cup {[id |-> "azure", class |-> "AzureProvider"]}

Strings(n) == UNION {[1..k -> {"H", "e"}] : k \in 0..n}

\* the stream a provider sends for a completion: one delta chunk per
\* character of the content
SplitChars(content) ==
    [i \in 1..Len(content) |-> TextChunk(ModelG4, <<content[i]>>)]

\* the opening chunk of OpenAI and Azure: delta {role: assistant, content: ""}
RoleMarker == TextChunk(ModelG4, <<>>)

\* a text stream: an optional role marker, the characters, a stop or length marker
TextStreams ==
    {[original |-> Completion(ModelG4, "stop", content, NoneRec, NoneRec),
      chunks |-> lead \o SplitChars(content) \o <<Marker(ModelG4, finish_reason, None)>>] :
        content \in Strings(MaxLen), lead \in {<<>>, <<RoleMarker>>},
        finish_reason \in {"stop", "length"}}

ToolCallChunk(delta) == Chunk(ModelG4, "None", None, delta, NoneRec)

\* the tool-call chunk that carries id, name and type
ToolCallHeads ==
    {ToolCallChunk(ToolCallDelta(id, <<"f">>, "function", arguments)) :
        id \in {<<"1">>, None}, arguments \in {None, <<>>, <<"{">>}}

\* the chunks after it: argument fragments, or a chunk without tool_calls
ToolCallFragments ==
    {ToolCallChunk(ToolCallDelta(None, None, "None", arguments)) :
        arguments \in {None, <<"a">>, <<"b">>}} \cup {TextChunk(ModelG4, None)}

ToolCallStreams ==
    {[original |-> NoneRec,
      chunks |-> <<RoleMarker, head>> \o fragments \o <<Marker(ModelG4, "tool_calls", None)>>] :
        head \in ToolCallHeads,
        fragments \in UNION {[1..k -> ToolCallFragments] : k \in 0..MaxFrags}}

FunctionCallChunk(finish_reason, delta) ==
    Chunk(ModelG4, finish_reason, None, NoneRec, delta)

FunctionCallChunks ==
    {FunctionCallChunk("None", FunctionCallDelta(<<"f">>, <<"{">>)),
     FunctionCallChunk("None", FunctionCallDelta(None, <<"a">>)),
     RoleMarker}

FunctionCallMarkers ==
    {Marker(ModelG4, "function_call", None),
     FunctionCallChunk("function_call", FunctionCallDelta(None, <<"}">>))}

FunctionCallStreams ==
    {[original |-> NoneRec, chunks |-> body \o <<last>>] :
        body \in UNION {[1..k -> FunctionCallChunks] : k \in 1..MaxLen},
        last \in FunctionCallMarkers}

ContentChunks == {TextChunk(ModelG4, content) : content \in {None, <<>>, <<"H">>, <<"e">>}}

\* a text stream whose chunks may lack content and whose last chunk may
\* carry some
ContentStreams ==
    {[original |-> NoneRec,
      chunks |-> body \o <<Marker(ModelG4, finish_reason, content)>>] :
        body \in UNION {[1..k -> ContentChunks] : k \in 0..MaxFrags},
        finish_reason \in {"stop", "length"}, content \in {None, <<"y">>}}

JoinRequest ==
    [flavor |-> "chat", model |-> ModelG4, chat_input |-> Str(<<"h", "i">>),
     is_stream |-> TRUE, retries |-> 0, well_formed |-> TRUE]

\* the chunks handle_response_stream has accumulated when the upstream ends;
\* response holds the completion a text stream was split from
InitJoin ==
    /\ provider \in JoinProviders
    /\ request = JoinRequest
    /\ \E stream \in TextStreams \cup ContentStreams \cup ToolCallStreams
                      \cup FunctionCallStreams :
        /\ chunks = stream.chunks
        /\ response = stream.original
    /\ pc = "chunks"
    /\ attempt = 0
    /\ outcomes = <<NoError>>
    /\ emitted = <<>>
    /\ error = NoError
    /\ now = 1
    /\ start_time = NoTime
    /\ first_token_time = NoTime
    /\ previous_token_time = NoTime
    /\ token_times = <<>>
    /\ token_count = 0
    /\ chunk = NoneRec
    /\ joined = NoneRec
    /\ pricing = NoneRec
    /\ cost = NoneRec
    /\ llm = NoneRec
    /\ batch = NoneRec
    /\ input_string = None

\* response, output_string = self.join_chunks(chunks, request)
JoinChunks ==
    /\ pc = "chunks"
    /\ joined' = join_chunks(chunks, provider.class)
    /\ pc' = "joined"
    /\ UNCHANGED <<provider, request, attempt, outcomes, response, emitted, error,
                   now, start_time, streamLocals, costLocals, input_string, batchVars>>

NextJoin == JoinChunks

SpecJoin == InitJoin /\ [][NextJoin]_vars

---------------------------------------------------------------------------
(* calculate_cost on its own: a token count and a price schedule are       *)
(* drawn, then priced                                                      *)

\* largest token count
MaxTokens == 6
\* most ranges of a tiered schedule
MaxRanges == 2

CostRanges == {Range(lo, hi, c) : lo \in {0, 3}, hi \in {2, 5, NoneInt}, c \in {1, 4}}

TokenCosts ==
    {Scalar(c) : c \in {0, 2}}
        \cup {Tiered(rs) : rs \in UNION {[1..k -> CostRanges] : k \in 0..MaxRanges}}

InitCost ==
    /\ provider \in {p \in Providers : p.id = "openai"}
    /\ request = JoinRequest
    /\ token_count \in 0..MaxTokens
    /\ pricing \in TokenCosts
    /\ cost = NoneRec
    /\ llm = NoneRec
    /\ batch = NoneRec
    /\ input_string = None
    /\ pc = "priced"
    /\ attempt = 0
    /\ outcomes = <<>>
    /\ response = NoneRec
    /\ emitted = <<>>
    /\ error = NoError
    /\ now = 1
    /\ start_time = NoTime
    /\ first_token_time = NoTime
    /\ previous_token_time = NoTime
    /\ token_times = <<>>
    /\ chunks = <<>>
    /\ chunk = NoneRec
    /\ joined = NoneRec

\* self.calculate_cost(token_count, token_cost)
CalculateCost ==
    /\ pc = "priced"
    /\ cost' = calculate_cost(token_count, pricing)
    /\ pc' = "costed"
    /\ UNCHANGED <<provider, request, attempt, outcomes, response, emitted, error,
                   now, start_time, streamLocals, joined, pricing, input_string, batchVars>>

NextCost == CalculateCost

SpecCost == InitCost /\ [][NextCost]_vars

---------------------------------------------------------------------------
(* handle_response_stream under a clock that may stand still: the stream   *)
(* of one attempt, from the return of generate_client on                   *)

\* latest reading of the clock
MaxClock == 4

ClockChunks ==
    {TextChunk(ModelG4, <<"a">>),
     TextChunk(<<>>, <<>>),
     Marker(ModelG4, "stop", None),
     Marker(<<>>, "stop", <<"c">>)}

InitClock ==
    /\ provider \in Providers
    /\ request \in {r \in Requests :
                      r.is_stream /\ r.well_formed /\ r.model = ModelG4 /\ r.retries = 0}
    /\ pc = "pull"
    /\ attempt = 0
    /\ outcomes = <<NoError>>
    /\ response = NoneRec
    /\ emitted = <<>>
    /\ error = NoError
    /\ now = 1
    /\ start_time = 1
    /\ first_token_time = NoTime
    /\ previous_token_time = NoTime
    /\ token_times = <<>>
    /\ token_count = 0
    /\ chunks = <<>>
    /\ chunk = NoneRec
    /\ joined = NoneRec
    /\ pricing = NoneRec
    /\ cost = NoneRec
    /\ llm = NoneRec
    /\ batch = NoneRec
    /\ input_string = None

\* time passes while the generator waits for the upstream
Tick ==
    /\ pc = "pull"
    /\ now < MaxClock
    /\ now' = now + 1
    /\ UNCHANGED <<provider, request, pc, attempt, outcomes, response, emitted,
                   error, start_time, streamLocals, joined, costLocals, input_string, batchVars>>

NextClock ==
    \/ Tick
    \/ StreamPull(ClockChunks, {0})
    \/ StreamYield
    \/ StreamEnd

SpecClock == InitClock /\ [][NextClock]_vars

---------------------------------------------------------------------------
(* input_to_string on its own: a chat_input is drawn, turned into its      *)
(* string, and the string is turned into its string again                  *)

\* most messages of a chat_input
MaxMessages == 2

OtherPart == [type |-> "input_audio", text |-> <<>>, url |-> <<>>]

MessageContents ==
    {NoneRec, Str(<<>>), Str(<<"a">>),
     Parts(<<>>),
     Parts(<<TextPart(<<"t">>)>>),
     Parts(<<TextPart(<<"t">>), ImagePart(<<"u">>)>>),
     Parts(<<ImagePart(<<"u">>), OtherPart, TextPart(<<"t">>)>>)}

ChatMessages == [role : {"user", "assistant"}, content : MessageContents]

ChatInputs ==
    {Str(s) : s \in Strings(MaxLen)}
        \cup {Messages(ms) : ms \in UNION {[1..k -> ChatMessages] : k \in 0..MaxMessages}}

InitInput ==
    /\ provider \in {p \in Providers : p.id = "openai"}
    /\ \E input \in ChatInputs : request = [JoinRequest EXCEPT !.chat_input = input]
    /\ pc = "input"
    /\ input_string = None
    /\ attempt = 0
    /\ outcomes = <<>>
    /\ response = NoneRec
    /\ emitted = <<>>
    /\ error = NoError
    /\ now = 1
    /\ start_time = NoTime
    /\ first_token_time = NoTime
    /\ previous_token_time = NoTime
    /\ token_times = <<>>
    /\ token_count = 0
    /\ chunks = <<>>
    /\ chunk = NoneRec
    /\ joined = NoneRec
    /\ pricing = NoneRec
    /\ cost = NoneRec
    /\ llm = NoneRec
    /\ batch = NoneRec

\* self.input_to_string(input)
InputToString ==
    /\ pc = "input"
    /\ input_string' = input_to_string(request.chat_input)
    /\ pc' = "string"
    /\ UNCHANGED <<provider, request, attempt, outcomes, response, emitted, error,
                   now, start_time, streamLocals, joined, costLocals, batchVars>>

\* input_to_string applied to the string it returned
InputToStringAgain ==
    /\ pc = "string"
    /\ input_string' = input_to_string(Str(input_string))
    /\ pc' = "string again"
    /\ UNCHANGED <<provider, request, attempt, outcomes, response, emitted, error,
                   now, start_time, streamLocals, joined, costLocals, batchVars>>

NextInput ==
    \/ InputToString
    \/ InputToStringAgain

SpecInput == InitInput /\ [][NextInput]_vars

---------------------------------------------------------------------------
(* The Cohere adapter, llmstudio/engine/providers/cohere.py: validation of *)
(* the parameters by the CohereRequest schema, then the upstream call.     *)
(* temperature and p are counted in hundredths.  super().chat belongs to   *)
(* the engine's Provider class, which is not among the sources; it runs    *)
(* after the validation and is left out.                                   *)

CommandParametersPositiveP(ps) ==
    /\ ps.temperature >= 0 /\ ps.temperature <= 500
    /\ ps.max_tokens >= 1
    /\ ps.p >= 1 /\ ps.p <= 99
    /\ ps.k >= 0 /\ ps.k <= 500

\* CommandParameters: does the pydantic schema accept the parameters
CommandParameters(ps) ==
    /\ ps.temperature >= 0 /\ ps.temperature <= 500
    /\ ps.max_tokens >= 1
    /\ ps.p >= 0 /\ ps.p <= 99
    /\ ps.k >= 0 /\ ps.k <= 500

ParameterValues ==
    [temperature : {0 - 1, 0, 75, 500, 501},
     max_tokens : {0, 1, 256},
     p : {0 - 1, 0, 1, 99, 100},
     k : {0 - 1, 0, 500, 501}]

CohereErrors == {Raise("HTTPException", 429, "rate limit")}

InitCohere ==
    /\ provider \in {p \in Providers : p.id = "cohere"}
    /\ \E ps \in ParameterValues :
        request = [flavor |-> "achat", model |-> ModelG4, chat_input |-> Str(<<"h", "i">>),
                   is_stream |-> FALSE, retries |-> 0, well_formed |-> TRUE,
                   parameters |-> ps]
    /\ pc = "new"
    /\ attempt = 0
    /\ outcomes = <<>>
    /\ response = NoneRec
    /\ emitted = <<>>
    /\ error = NoError
    /\ now = 1
    /\ start_time = NoTime
    /\ first_token_time = NoTime
    /\ previous_token_time = NoTime
    /\ token_times = <<>>
    /\ token_count = 0
    /\ chunks = <<>>
    /\ chunk = NoneRec
    /\ joined = NoneRec
    /\ pricing = NoneRec
    /\ cost = NoneRec
    /\ llm = NoneRec
    /\ batch = NoneRec
    /\ input_string = None

\* request = CohereRequest(**request); except ValidationError: 422
CohereValidate ==
    /\ pc = "new"
    /\ IF CommandParameters(request.parameters)
       THEN pc' = "dispatch" /\ UNCHANGED error
       ELSE Fail(Raise("HTTPException", 422, "validation"))
    /\ UNCHANGED <<provider, request, attempt, outcomes, response, emitted, now,
                   start_time, streamLocals, joined, costLocals, input_string, batchVars>>

\* co.generate(...): the upstream invocation
CohereGenerate ==
    /\ pc = "dispatch"
    /\ \E o \in {NoError} \cup CohereErrors :
        /\ outcomes' = Append(outcomes, o)
        /\ IF o = NoError
           THEN pc' = "done" /\ UNCHANGED error
           ELSE Fail(o)
    /\ start_time' = now
    /\ UNCHANGED <<provider, request, attempt, response, emitted, now,
                   streamLocals, joined, costLocals, input_string, batchVars>>

NextCohere ==
    \/ CohereValidate
    \/ CohereGenerate

SpecCohere == InitCohere /\ [][NextCohere]_vars

---------------------------------------------------------------------------
(* The batch client, llmstudio/llm/__init__.py: batch_chat_coroutine       *)
(* gathers one chat_coroutine task per input; the tasks share the LLM      *)
(* object (failed_requests, pause) and a semaphore.  asyncio runs one task *)
(* at a time and switches tasks only at an await, so each action is the    *)
(* code of one task between two awaits.                                    *)

\* most inputs of a batch
MaxInputs == 3
\* largest num_coroutines
MaxCoroutines == 2
\* largest max_retries
MaxBatchRetries == 3
\* if self.failed_requests >= 5
PauseThreshold == 5

Pending == [pending |-> TRUE]
\* the ChatCompletion async_chat returns for an input
ResponseTo(input) == [response_to |-> input]

NewTask == [pc |-> "acquire", i |-> 0, started |-> 0, failed |-> 0, result |-> Pending]

InitBatch ==
    /\ llm = [failed_requests |-> 0, pause |-> FALSE]
    /\ \E n \in 1..MaxInputs, m \in 0..MaxBatchRetries, num_coroutines \in 1..MaxCoroutines :
        batch = [inputs |-> [t \in 1..n |-> t],
                 max_retries |-> m,
                 semaphore |-> num_coroutines,
                 tasks |-> [t \in 1..n |-> NewTask],
                 gathered |-> FALSE,
                 responses |-> <<>>]
    /\ provider \in {p \in Providers : p.id = "openai"}
    /\ request = JoinRequest
    /\ pc = "batch"
    /\ attempt = 0
    /\ outcomes = <<>>
    /\ response = NoneRec
    /\ emitted = <<>>
    /\ error = NoError
    /\ now = 1
    /\ start_time = NoTime
    /\ first_token_time = NoTime
    /\ previous_token_time = NoTime
    /\ token_times = <<>>
    /\ token_count = 0
    /\ chunks = <<>>
    /\ chunk = NoneRec
    /\ joined = NoneRec
    /\ pricing = NoneRec
    /\ cost = NoneRec
    /\ input_string = None

coreVars == <<provider, request, pc, attempt, outcomes, response, emitted, error,
              now, start_time, streamLocals, joined, costLocals, input_string>>

Tasks == DOMAIN batch.tasks

\* response = await self.async_chat(input): the request starts
Requesting(task) == [task EXCEPT !.pc = "request", !.started = @ + 1]

\* return from chat_coroutine: the result, and the semaphore is released
Returning(t, result) ==
    [batch EXCEPT !.tasks[t] = [@ EXCEPT !.pc = "returned", !.result = result],
                  !.semaphore = @ + 1]

\* async with semaphore
Acquire ==
    /\ \E t \in Tasks :
        /\ batch.tasks[t].pc = "acquire"
        /\ batch.semaphore > 0
        /\ batch' = [batch EXCEPT !.tasks[t].pc = "loop", !.semaphore = @ - 1]
    /\ UNCHANGED <<coreVars, llm>>

\* an iteration of the loop begins with pause not set: the request starts
AttemptIgnoringPause ==
    /\ \E t \in Tasks :
        /\ batch.tasks[t].pc = "loop"
        /\ batch.tasks[t].i < batch.max_retries
        /\ batch' = [batch EXCEPT !.tasks[t] = Requesting(@)]
    /\ UNCHANGED <<coreVars, llm>>

\* for i in range(max_retries): if self.pause: await asyncio.sleep(60),
\* else the request starts
Attempt ==
    /\ \E t \in Tasks :
        /\ batch.tasks[t].pc = "loop"
        /\ batch.tasks[t].i < batch.max_retries
        /\ batch' = [batch EXCEPT !.tasks[t] =
                        IF llm.pause THEN [@ EXCEPT !.pc = "sleep60"] ELSE Requesting(@)]
    /\ UNCHANGED <<coreVars, llm>>

\* the 60 s are over: pause and failed_requests are reset, the request starts
Wake ==
    /\ \E t \in Tasks :
        /\ batch.tasks[t].pc = "sleep60"
        /\ batch' = [batch EXCEPT !.tasks[t] = Requesting(@)]
    /\ llm' = [failed_requests |-> 0, pause |-> FALSE]
    /\ UNCHANGED coreVars

RequestSucceedsAndGoesOn ==
    /\ \E t \in Tasks :
        /\ batch.tasks[t].pc = "request"
        /\ batch' = [batch EXCEPT !.tasks[t] =
                        [@ EXCEPT !.pc = "backoff",
                                  !.result = ResponseTo(batch.inputs[t])]]
    /\ UNCHANGED <<coreVars, llm>>

\* async_chat returns: return response
RequestSucceeds ==
    /\ \E t \in Tasks :
        /\ batch.tasks[t].pc = "request"
        /\ batch' = Returning(t, ResponseTo(batch.inputs[t]))
    /\ UNCHANGED <<coreVars, llm>>

\* async_chat raises: the except clause, up to the backoff sleep or return None
RequestFails ==
    /\ \E t \in Tasks :
        /\ batch.tasks[t].pc = "request"
        /\ LET failed_requests == llm.failed_requests + 1
               counted == [batch EXCEPT !.tasks[t].failed = @ + 1]
           IN  /\ llm' = [failed_requests |-> failed_requests,
                          pause |-> llm.pause \/ failed_requests >= PauseThreshold]
               /\ batch' = IF batch.tasks[t].i < batch.max_retries - 1
                           THEN [counted EXCEPT !.tasks[t].pc = "backoff"]
                           ELSE [counted EXCEPT
                                    !.tasks[t] = [@ EXCEPT !.pc = "returned",
                                                           !.result = NoneRec],
                                    !.semaphore = @ + 1]
    /\ UNCHANGED coreVars

\* await asyncio.sleep(wait_time) is over: the next iteration
BackoffEnds ==
    /\ \E t \in Tasks :
        /\ batch.tasks[t].pc = "backoff"
        /\ batch' = [batch EXCEPT !.tasks[t] = [@ EXCEPT !.pc = "loop", !.i = @ + 1]]
    /\ UNCHANGED <<coreVars, llm>>

\* range(max_retries) is used up without a return: the coroutine ends, None
LoopExhausted ==
    /\ \E t \in Tasks :
        /\ batch.tasks[t].pc = "loop"
        /\ batch.tasks[t].i >= batch.max_retries
        /\ batch' = Returning(t, NoneRec)
    /\ UNCHANGED <<coreVars, llm>>

\* responses = await asyncio.gather(*[...]): the results in the order of the inputs
Gather ==
    /\ ~batch.gathered
    /\ \A t \in Tasks : batch.tasks[t].pc = "returned"
    /\ batch' = [batch EXCEPT
                    !.gathered = TRUE,
                    !.responses = [t \in Tasks |-> batch.tasks[t].result]]
    /\ UNCHANGED <<coreVars, llm>>

NextBatch ==
    \/ Acquire
    \/ Attempt
    \/ Wake
    \/ RequestSucceeds
    \/ RequestFails
    \/ BackoffEnds
    \/ LoopExhausted
    \/ Gather

SpecBatch == InitBatch /\ [][NextBatch]_vars

---------------------------------------------------------------------------
(* Vocabulary of the properties *)

invocations == Len(outcomes)

RateLimited(o) == o.kind = "HTTPException" /\ o.status = 429
Returned(o) == o = NoError

AllRateLimited(os) == \A i \in 1..Len(os) : RateLimited(os[i])

TooManyRequests == Raise("HTTPException", 429, "Too many requests")

Catalogued == request.model \in DOMAIN ConfigModels

HasMetrics(e) == e.metrics /= NoneRec
IsPerChunk(e) == e.metrics = NoneRec

\* the chunks pulled so far whose finish_reason is not "stop"
NotStop(c) == c.finish_reason /= "stop"
Emitting == SelectSeq(chunks, NotStop)

PerChunkEnvelopes == SelectSeq(emitted, IsPerChunk)

Front(s) == SubSeq(s, 1, Len(s) - 1)

---------------------------------------------------------------------------
(* C1: with retries = n >= 0, a call makes at most n + 1 upstream client   *)
(* invocations, whatever the pattern of rate-limit failures.               *)
C1_AtMostRetriesPlusOne ==
    request.retries >= 0 => invocations <= request.retries + 1

C1_Witness ==
    /\ request.retries = MaxRetries
    /\ invocations = MaxRetries + 1
    /\ AllRateLimited(outcomes)
    /\ pc = "failed"

(* C2: a non-stream call with retries = n whose first k <= n upstream      *)
(* attempts are rate-limited and whose attempt k + 1 returns a completion  *)
(* succeeds with exactly one envelope after exactly k + 1 invocations.     *)
C2_RetryThenSuccess ==
    (/\ ~request.is_stream
     /\ pc \in {"done", "failed"}
     /\ invocations >= 1
     /\ invocations - 1 <= request.retries
     /\ AllRateLimited(Front(outcomes))
     /\ Returned(Last(outcomes)))
    => (pc = "done" /\ Len(emitted) = 1)

(* C3: if all retries + 1 attempts of a dispatched call are rate-limited,  *)
(* the call fails with HTTP 429 "Too many requests" after exactly          *)
(* retries + 1 invocations and emits no envelope; and that failure is      *)
(* reported in no other case.                                              *)
C3_ExhaustedIsRateLimited ==
    request.retries + 1 >= 0 =>
        /\ (/\ request.well_formed /\ Catalogued /\ pc /= "new"
            /\ AllRateLimited(outcomes)
            /\ invocations = request.retries + 1) =>
              /\ emitted = <<>>
              /\ pc \in {"dispatch", "failed"}
              /\ pc = "dispatch" => ~LoopRuns
              /\ pc = "failed" => error = TooManyRequests
        /\ (pc = "failed" /\ error.detail = "Too many requests") =>
              /\ error = TooManyRequests
              /\ AllRateLimited(outcomes)
              /\ invocations = request.retries + 1

C3_Witness ==
    /\ pc = "failed"
    /\ error = TooManyRequests
    /\ request.retries = 1
    /\ invocations = 2
    /\ request.is_stream

(* C4: an upstream attempt that fails with anything but a rate limit ends  *)
(* the call at once: it is the last invocation, the call has failed with   *)
(* that HTTP error (or, for another exception, ProviderError in chat and   *)
(* HTTP 500 in achat), and nothing was emitted.                            *)
C4_OtherErrorIsFatal ==
    \A i \in 1..invocations :
        (~Returned(outcomes[i]) /\ ~RateLimited(outcomes[i])) =>
            /\ i = invocations
            /\ pc = "failed"
            /\ emitted = <<>>
            /\ IF outcomes[i].kind = "HTTPException"
               THEN error = outcomes[i]
               ELSE /\ error.detail = outcomes[i].detail
                    /\ request.flavor = "chat" => error.kind = "ProviderError"
                    /\ request.flavor = "achat" =>
                          error.kind = "HTTPException" /\ error.status = 500

C4_Witness ==
    /\ pc = "failed"
    /\ request.retries = MaxRetries
    /\ invocations = 2
    /\ RateLimited(outcomes[1])
    /\ outcomes[2].status = 401
    /\ error.status = 401

(* C5: a request rejected before dispatch (validation error, status 422,   *)
(* or a model outside the catalog, status 400) causes no upstream          *)
(* invocation and no envelope, stream or not, whatever retries is.         *)
C5_RejectedBeforeDispatch ==
    (~request.well_formed \/ ~Catalogued) =>
        /\ invocations = 0
        /\ emitted = <<>>
        /\ pc \in {"new", "failed"}
        /\ pc = "failed" =>
              /\ error.kind = "HTTPException"
              /\ error.status = IF ~request.well_formed THEN 422 ELSE 400

C5_Witness ==
    /\ pc = "failed"
    /\ request.well_formed
    /\ ~Catalogued
    /\ request.is_stream
    /\ request.retries = MaxRetries
    /\ error.status = 400

(* C6: in a successful call exactly one emitted envelope carries metrics,  *)
(* and it is the last one emitted.                                         *)
C6_OneMetricsEnvelopeLast ==
    pc = "done" =>
        /\ emitted /= <<>>
        /\ \A i \in 1..Len(emitted) : HasMetrics(emitted[i]) <=> i = Len(emitted)

C6_Witness ==
    /\ pc = "done"
    /\ request.is_stream
    /\ Len(emitted) = 3
    /\ Last(chunks).finish_reason = "stop"

(* C7: per-chunk envelopes come out in the order of arrival of their       *)
(* chunks, none reordered or duplicated, each before the next chunk is     *)
(* pulled (at most the chunk just pulled is still to be emitted, and then  *)
(* the generator is at its yield), and the terminator comes after all.     *)
C7_FifoOrder ==
    request.is_stream =>
        LET pulled == [i \in 1..Len(Emitting) |-> Emitting[i].content]
            out == [i \in 1..Len(PerChunkEnvelopes) |-> PerChunkEnvelopes[i].chat_output]
        IN  /\ pc = "yield" => (pulled /= <<>> /\ out = Front(pulled))
            /\ pc /= "yield" => out = pulled
            /\ \A i \in 1..Len(emitted) :
                  HasMetrics(emitted[i]) =>
                      /\ i = Len(emitted)
                      /\ pc = "done"
                      /\ Len(PerChunkEnvelopes) = Len(emitted) - 1

C7_Witness ==
    /\ pc = "done"
    /\ Len(chunks) = 3
    /\ chunks[1].content = <<"a">>
    /\ chunks[2].content = <<"b">>
    /\ Len(emitted) = 3
    /\ emitted[1].chat_output = <<"a">>
    /\ emitted[2].chat_output = <<"b">>

(* C8: every chunk whose finish_reason is not "stop" gives exactly one     *)
(* per-chunk envelope, with chat_output its delta content and no metrics;  *)
(* a "stop" chunk gives none; the terminator has chat_output null and      *)
(* metrics.                                                                *)
C8_ChunkEnvelopes ==
    request.is_stream =>
        LET stops == {i \in 1..Len(chunks) : chunks[i].finish_reason = "stop"}
            pending == IF pc = "yield" THEN 1 ELSE 0
            terminators == IF pc = "done" THEN 1 ELSE 0
        IN  /\ Len(emitted) = Len(chunks) - Cardinality(stops) - pending + terminators
            /\ \A i \in 1..(Len(emitted) - terminators) :
                  /\ emitted[i].metrics = NoneRec
                  /\ emitted[i].chat_output = Emitting[i].content
            /\ pc = "done" =>
                  /\ Last(emitted).chat_output = None
                  /\ HasMetrics(Last(emitted))

C8_Witness ==
    /\ pc = "done"
    /\ Len(chunks) = 3
    /\ chunks[2].finish_reason = "stop"
    /\ chunks[2].content = <<"c">>
    /\ chunks[3].finish_reason = "length"
    /\ Len(emitted) = 3
    /\ emitted[1].chat_output = <<>>
    /\ emitted[2].chat_output = None
    /\ emitted[3].chat_output = None

---------------------------------------------------------------------------
(* The upstream-reported model behind the i-th emitted envelope: the       *)
(* completion's model, the chunk's model for a per-chunk envelope, the     *)
(* first non-empty chunk model for the terminator.                         *)

NonEmptyModel(c) == c.model /= None /\ c.model /= <<>>

ReportedModel(i) ==
    IF ~request.is_stream THEN response.model
    ELSE IF IsPerChunk(emitted[i]) THEN Emitting[i].model
    ELSE SelectSeq(chunks, NonEmptyModel)[1].model

\* u begins with r
BeginsWith(u, r) == \E k \in 0..Len(u) : SubSeq(u, 1, k) = r

MoreSpecific(u, r) == u /= None /\ u /= r /\ BeginsWith(u, r)

(* C9 as stated: model is the requested model, unless the upstream model   *)
(* is a more specific name beginning with it, and then the upstream name.  *)
C9_ModelAsStated ==
    \A i \in 1..Len(emitted) :
        emitted[i].model =
            IF MoreSpecific(ReportedModel(i), request.model)
            THEN ReportedModel(i)
            ELSE request.model

(* C9 amended: model is the requested model when the upstream-reported     *)
(* model is absent, empty or begins with the requested model (also when it *)
(* is a more specific name); otherwise it is the upstream-reported model.  *)
C9_ModelField ==
    \A i \in 1..Len(emitted) :
        emitted[i].model =
            IF \/ ReportedModel(i) \in {None, <<>>}
               \/ BeginsWith(ReportedModel(i), request.model)
            THEN request.model
            ELSE ReportedModel(i)

C9_Witness ==
    /\ ~request.is_stream
    /\ pc = "done"
    /\ request.model = ModelG4
    /\ response.model = ModelG4x
    /\ emitted[1].model = ModelG4

(* C10: deployment is the upstream model when that is a more specific      *)
(* variant of the requested model; otherwise the requested model when it   *)
(* differs from the upstream model; otherwise (equal) absent.              *)
C10_DeploymentField ==
    \A i \in 1..Len(emitted) :
        emitted[i].deployment =
            IF MoreSpecific(ReportedModel(i), request.model)
            THEN ReportedModel(i)
            ELSE IF request.model /= ReportedModel(i) THEN request.model ELSE None

(* C11: a non-stream call that succeeds hands the caller exactly one       *)
(* envelope; its chat_output is the content of the upstream completion and *)
(* its provider is the id of the provider's configuration.                 *)
C11_SingleEnvelope ==
    (~request.is_stream /\ pc = "done") =>
        /\ Len(emitted) = 1
        /\ emitted[1].chat_output = response.content
        /\ emitted[1].provider = provider.id

C11_Witness ==
    /\ ~request.is_stream
    /\ pc = "done"
    /\ response.content = <<"H", "i">>
    /\ provider.id = "cohere"
    /\ emitted = <<handle_response(request, provider, response, start_time, now).value>>

OtherFlavor == IF request.flavor = "chat" THEN "achat" ELSE "chat"

(* C12: chat and achat are observably identical.  For a non-HTTP exception *)
(* raised by the upstream client, the error the call ends with has the     *)
(* kind and the status of the error the other flavor raises for that same  *)
(* exception.                                                              *)
C12_FlavorsAgree ==
    (pc = "failed" /\ outcomes /= <<>> /\ Last(outcomes).kind = "Exception") =>
        LET other == WrapException(OtherFlavor, Last(outcomes).detail)
        IN  /\ error.kind = other.kind
            /\ error.status = other.status

(* C13: in a stream call, once the first per-chunk envelope has been       *)
(* emitted, no step invokes the upstream again; a step that raises an      *)
(* error ends the call as failed and emits nothing; a failed call stays    *)
(* failed, emits nothing more and has emitted no envelope with metrics.    *)
C13_ErrorEndsStream ==
    [][(request.is_stream /\ emitted /= <<>>) =>
          /\ outcomes' = outcomes
          /\ (error' /= NoError => (pc' = "failed" /\ emitted' = emitted))
          /\ (pc = "failed" => pc' = "failed")
          /\ (pc' = "failed" => \A i \in 1..Len(emitted') : ~HasMetrics(emitted'[i]))
      ]_vars

C13_Witness ==
    /\ request.is_stream
    /\ pc = "failed"
    /\ emitted /= <<>>
    /\ RateLimited(error)
    /\ attempt < request.retries
    /\ invocations = 1

(* C14: when the consumer abandons a stream, the abandoning step and every *)
(* later step emit no envelope, and no envelope carrying metrics has been  *)
(* emitted for the call.                                                   *)
C14_NothingAfterCancel ==
    [][pc' = "cancelled" =>
          /\ emitted' = emitted
          /\ \A i \in 1..Len(emitted') : ~HasMetrics(emitted'[i])
      ]_vars

C14_Witness ==
    /\ pc = "cancelled"
    /\ Len(chunks) = 2
    /\ Len(emitted) = 2
    /\ \A i \in 1..2 : emitted[i] = ChunkEnvelope(request, provider, chunks[i])

\* a text stream that ends with a stop marker has been joined
StopStreamJoined ==
    pc = "joined" /\ response /= NoneRec /\ Last(chunks).finish_reason = "stop"

LedByRoleMarker == Len(chunks) = Len(response.content) + 2

SkipsFirstChunk == provider.class \in {"OpenAIProvider", "AzureProvider"}

(* C15 as stated: for every provider, joining the single-character chunks  *)
(* of a content string and a stop marker gives back the content.           *)
C15_RoundTripAsStated ==
    StopStreamJoined =>
        /\ joined.raised = "none"
        /\ joined.value.completion.content = response.content

(* C15 amended: the joined content is the original content, except that    *)
(* OpenAI and Azure skip chunk 0: when no role-marker chunk precedes the   *)
(* character chunks, the first character is lost.                          *)
C15_RoundTrip ==
    StopStreamJoined =>
        /\ joined.raised = "none"
        /\ joined.value.completion.finish_reason = "stop"
        /\ joined.value.completion.content =
              IF SkipsFirstChunk /\ ~LedByRoleMarker /\ response.content /= <<>>
              THEN Tail(response.content)
              ELSE response.content

C15_Witness ==
    /\ StopStreamJoined
    /\ provider.class = "OpenAIProvider"
    /\ LedByRoleMarker
    /\ response.content = <<"H", "e", "H">>
    /\ joined.value.completion.content = <<"H", "e", "H">>

CarriesToolCall(c) == c.tool_calls /= NoneRec

\* the tool-call deltas of the chunks between the first and the last
ToolCallDeltas == [i \in 1..Len(Middle(chunks)) |-> Middle(chunks)[i].tool_calls]

\* a tool_calls stream as C16 describes it has been joined: every chunk
\* between the first and the last carries a tool call, the first of them
\* with id, name and type
ToolCallStreamJoined ==
    /\ pc = "joined"
    /\ Last(chunks).finish_reason = "tool_calls"
    /\ \A i \in 2..(Len(chunks) - 1) : CarriesToolCall(chunks[i])
    /\ ToolCallDeltas[1].id /= None
    /\ ToolCallDeltas[1].function.name /= None
    /\ ToolCallDeltas[1].function.type = "function"

RECURSIVE Fragments(_)
Fragments(deltas) ==
    IF deltas = <<>> THEN <<>>
    ELSE (IF Head(deltas).function.arguments = None
          THEN <<>>
          ELSE Head(deltas).function.arguments) \o Fragments(Tail(deltas))

OneToolCall(arguments) ==
    /\ joined.raised = "none"
    /\ joined.value.completion.finish_reason = "tool_calls"
    /\ joined.value.completion.tool_calls.id = ToolCallDeltas[1].id
    /\ joined.value.completion.tool_calls.function.name = ToolCallDeltas[1].function.name
    /\ joined.value.completion.tool_calls.function.arguments = arguments

FunctionCallDeltas ==
    LET carrying == SelectSeq(chunks, HasFunctionCall)
    IN  [i \in 1..Len(carrying) |-> carrying[i].function_call]

RECURSIVE Concatenated(_)
Concatenated(deltas) ==
    IF deltas = <<>> THEN <<>>
    ELSE Head(deltas).arguments \o Concatenated(Tail(deltas))

\* a function_call stream has been joined: some chunk carries a
\* function_call delta and the first of them names the function
FunctionCallStreamJoined ==
    /\ pc = "joined"
    /\ Last(chunks).finish_reason = "function_call"
    /\ FunctionCallDeltas /= <<>>
    /\ FunctionCallDeltas[1].name /= None

(* C17: the joined function call has the name of the first chunk that      *)
(* carries a function_call delta, and its arguments are the concatenation  *)
(* of the arguments of all chunks that carry one, the first and the last   *)
(* chunk included.                                                         *)
C17_FunctionCall ==
    FunctionCallStreamJoined =>
        /\ joined.raised = "none"
        /\ joined.value.completion.function_call.name = FunctionCallDeltas[1].name
        /\ joined.value.completion.function_call.arguments =
              Concatenated(FunctionCallDeltas)

UnknownFinish(c) ==
    c.finish_reason \notin {"stop", "length", "tool_calls", "function_call"}

(* C18: in a stream call whose last accumulated chunk has a finish_reason  *)
(* other than stop, length, tool_calls and function_call, the call never   *)
(* completes and no envelope carrying metrics is emitted; when the stream  *)
(* ends and join_chunks returns nothing, the call has failed.              *)
C18_UnknownFinishIsFatal ==
    (request.is_stream /\ chunks /= <<>> /\ UnknownFinish(Last(chunks))) =>
        /\ pc \in {"pull", "yield", "failed", "cancelled"}
        /\ \A i \in 1..Len(emitted) : ~HasMetrics(emitted[i])
        /\ joined /= NoneRec => (pc = "failed" /\ error.kind = "TypeError")

C18_Witness ==
    /\ request.is_stream
    /\ pc = "failed"
    /\ Len(chunks) = 2
    /\ Last(chunks).finish_reason = "content_filter"
    /\ joined = Ok(NoneRec)
    /\ error.kind = "TypeError"
    /\ Len(emitted) = 2

\* the same stream with finish_reason "stop" on its last chunk
StopTwin(cs) == [cs EXCEPT ![Len(cs)].finish_reason = "stop"]

\* the chat_output values of the per-chunk envelopes emitted for a stream
PerChunkOutputs(cs) ==
    LET emitting == SelectSeq(cs, EmitsChunk)
    IN  [i \in 1..Len(emitting) |-> emitting[i].content]

(* C19: a stream that ends with finish_reason "length" produces the same   *)
(* per-chunk envelopes (same number, same chat_output values) and the same *)
(* synthesized completion as the stream that differs from it only in       *)
(* ending with "stop".                                                     *)
C19_LengthAsStop ==
    (request.is_stream /\ pc = "done" /\ Last(chunks).finish_reason = "length") =>
        /\ [i \in 1..(Len(emitted) - 1) |-> emitted[i].chat_output] =
              PerChunkOutputs(StopTwin(chunks))
        /\ joined = join_chunks(StopTwin(chunks), provider.class)
        /\ joined.value.completion.finish_reason = "stop"

Contains(range, n_tokens) ==
    n_tokens >= range.lo /\ (range.hi = NoneInt \/ n_tokens <= range.hi)

RECURSIVE ReferenceOverRanges(_, _)
ReferenceOverRanges(n_tokens, ranges) ==
    IF ranges = <<>> THEN 0
    ELSE IF Contains(Head(ranges), n_tokens) THEN n_tokens * Head(ranges).cost
    ELSE ReferenceOverRanges(n_tokens, Tail(ranges))

\* the reference cost function: tokens x price, or tokens x the cost of the
\* first range that contains tokens, an absent upper end being unbounded
ReferenceCost(n_tokens, schedule) ==
    IF schedule.kind = "scalar"
    THEN n_tokens * schedule.cost
    ELSE ReferenceOverRanges(n_tokens, schedule.ranges)

(* C20: calculate_cost returns the reference cost for every token count    *)
(* and every price schedule, open-ended last tiers included.               *)
C20_CostAgrees ==
    pc = "costed" => cost = Ok(ReferenceCost(token_count, pricing))

(* C21: in the metrics of every final envelope, of a non-stream call or of *)
(* a stream, total_tokens = input_tokens + output_tokens, whatever total   *)
(* the upstream usage record reports.                                      *)
C21_TotalIsSum ==
    \A i \in 1..Len(emitted) :
        HasMetrics(emitted[i]) =>
            emitted[i].metrics.total_tokens =
                emitted[i].metrics.input_tokens + emitted[i].metrics.output_tokens

C21_Witness ==
    /\ ~request.is_stream
    /\ pc = "done"
    /\ response.usage.total_tokens /=
          response.usage.prompt_tokens + response.usage.completion_tokens
    /\ emitted[1].metrics.input_tokens = response.usage.prompt_tokens
    /\ emitted[1].metrics.output_tokens = response.usage.completion_tokens
    /\ emitted[1].metrics.total_tokens =
          response.usage.prompt_tokens + response.usage.completion_tokens

TerminalFinish(c) ==
    c.finish_reason \in {"stop", "length", "tool_calls", "function_call"}

\* the upstream stream has ended: the code after the loop has run
StreamEnded ==
    pc = "done" \/ (pc = "failed" /\ error.detail = "handle_response_stream")

(* C22: a stream that delivers exactly one chunk, with a terminal          *)
(* finish_reason, completes, and its terminator carries metrics whose      *)
(* inter_token_latency_s is absent.                                        *)
C22_SingleChunkStream ==
    (request.is_stream /\ StreamEnded /\ Len(chunks) = 1 /\ TerminalFinish(chunks[1])) =>
        /\ pc = "done"
        /\ HasMetrics(Last(emitted))
        /\ Last(emitted).metrics.inter_token_latency_s = NoneRec

(* C23: for every stream with at least one chunk that completes, under a   *)
(* clock that never goes back, time_to_first_token_s is the arrival time   *)
(* of the first chunk minus the start time of the call, and                *)
(* 0 <= time_to_first_token_s <= latency_s.                                *)
C23_FirstTokenWithinLatency ==
    (request.is_stream /\ pc = "done" /\ chunks /= <<>>) =>
        LET metrics == Last(emitted).metrics
        IN  /\ metrics.time_to_first_token_s = Rat(first_token_time - start_time, 1)
            /\ 0 <= metrics.time_to_first_token_s.num
            /\ metrics.time_to_first_token_s.num <= metrics.latency_s

C23_Witness ==
    /\ request.is_stream
    /\ pc = "done"
    /\ Len(chunks) = 3
    /\ first_token_time = 2
    /\ Last(emitted).metrics.time_to_first_token_s = Rat(1, 1)
    /\ Last(emitted).metrics.latency_s = 3

(* C30: a stream call in which no chunk carries a non-empty model (or      *)
(* which delivers no chunk at all) never completes and emits no envelope   *)
(* carrying metrics; when its upstream ends the call fails; with zero      *)
(* chunks nothing at all is emitted.                                       *)
C30_NoModelIsFatal ==
    (request.is_stream /\ SelectSeq(chunks, NonEmptyModel) = <<>>) =>
        /\ pc /= "done"
        /\ \A i \in 1..Len(emitted) : ~HasMetrics(emitted[i])
        /\ chunks = <<>> => emitted = <<>>
        /\ StreamEnded => (pc = "failed" /\ error.kind = "RuntimeError")

C30_Witness ==
    /\ request.is_stream
    /\ pc = "failed"
    /\ error.kind = "RuntimeError"
    /\ Len(chunks) = 2
    /\ Last(chunks).finish_reason = "stop"
    /\ SelectSeq(chunks, NonEmptyModel) = <<>>
    /\ Len(emitted) = 1

\* the model of the first accumulated chunk whose model is non-empty
FirstReportedModel == SelectSeq(chunks, NonEmptyModel)[1].model

(* C27: the model and the deployment of the terminator envelope are        *)
(* derived from the first accumulated chunk whose model is non-empty;      *)
(* chunks without a model before it and the models of later chunks play no *)
(* part.                                                                   *)
C27_TerminatorModel ==
    (request.is_stream /\ pc = "done") =>
        /\ Last(emitted).model = envelope_model(request.model, FirstReportedModel)
        /\ Last(emitted).deployment =
              envelope_deployment(request.model, FirstReportedModel)

C27_Witness ==
    /\ request.is_stream
    /\ pc = "done"
    /\ Len(chunks) = 3
    /\ chunks[1].model = <<>>
    /\ chunks[2].model = ModelG4x
    /\ chunks[3].model = ModelG
    /\ Last(emitted).model = ModelG4
    /\ Last(emitted).deployment = ModelG4x

(* C29: in a stream call, the invocation in which generate_client returns  *)
(* is the last one: no error raised while chunks are pulled, a 429         *)
(* included, leads to another invocation; a call whose first invocation    *)
(* returns makes exactly one.                                              *)
C29_NoRetryAfterClient ==
    request.is_stream =>
        /\ \A i \in 1..Len(outcomes) : Returned(outcomes[i]) => i = Len(outcomes)
        /\ (outcomes /= <<>> /\ Returned(outcomes[1])) => invocations = 1

C29_Witness ==
    /\ request.is_stream
    /\ pc = "failed"
    /\ RateLimited(error)
    /\ emitted = <<>>
    /\ chunks = <<>>
    /\ outcomes = <<NoError>>
    /\ request.retries = MaxRetries
    /\ attempt = 0

RECURSIVE ContentFrom(_, _)
ContentFrom(cs, i) ==
    IF i > Len(cs) THEN <<>>
    ELSE (IF cs[i].content \in {None, <<>>} THEN <<>> ELSE cs[i].content)
             \o ContentFrom(cs, i + 1)

(* C28: for a stream ending with stop or length, the joined content is the *)
(* in-order concatenation of the non-empty delta contents of the chunks    *)
(* from the second chunk on for OpenAI and Azure and from the first chunk  *)
(* on for every other provider, the last chunk included.                   *)
C28_StopContent ==
    (pc = "joined" /\ Last(chunks).finish_reason \in {"stop", "length"}) =>
        /\ joined.raised = "none"
        /\ joined.value.completion.content =
              ContentFrom(chunks, IF SkipsFirstChunk THEN 2 ELSE 1)

C28_Witness ==
    /\ pc = "joined"
    /\ provider.class = "AzureProvider"
    /\ response = NoneRec
    /\ Len(chunks) = 3
    /\ chunks[1].content = <<"H">>
    /\ chunks[2].content = None
    /\ Last(chunks).finish_reason = "length"
    /\ Last(chunks).content = <<"y">>
    /\ joined.value.completion.content = <<"y">>

(* C24: input_to_string is idempotent: applied to the string it returned   *)
(* for a chat_input, it returns that same string.                          *)
C24_Idempotent ==
    [][pc = "string" => input_string' = input_string]_vars

C24_Witness ==
    /\ pc = "string again"
    /\ request.chat_input.type = "list"
    /\ Len(request.chat_input.items) = 2
    /\ input_string = <<"a", "t", "u">>

\* what one message contributes to the string of a message sequence
Contribution(message) ==
    IF message.content = NoneRec THEN <<>>
    ELSE IF message.content.type = "str" THEN message.content.value
    ELSE IF message.role /= "user" THEN <<>>
    ELSE LET parts == message.content.items
             Value(part) == IF part.type = "text" THEN part.text
                            ELSE IF part.type = "image_url" THEN part.url
                            ELSE <<>>
         IN  Join([i \in 1..Len(parts) |-> Value(parts[i])])

(* C25: for a message sequence, input_to_string is the in-order            *)
(* concatenation of what each message contributes: a string content        *)
(* whatever the role, the text and image_url.url values of the parts of a  *)
(* user message, and nothing for the parts of another role or for an       *)
(* absent content.                                                         *)
C25_MessagesString ==
    (pc = "string" /\ request.chat_input.type = "list") =>
        LET messages == request.chat_input.items
        IN  input_string = Join([i \in 1..Len(messages) |-> Contribution(messages[i])])

C25_Witness ==
    /\ pc = "string"
    /\ request.chat_input.type = "list"
    /\ Len(request.chat_input.items) = 2
    /\ request.chat_input.items[1] =
          [role |-> "assistant", content |-> Parts(<<TextPart(<<"t">>)>>)]
    /\ request.chat_input.items[2] =
          [role |-> "user",
           content |-> Parts(<<ImagePart(<<"u">>), OtherPart, TextPart(<<"t">>)>>)]
    /\ input_string = <<"u", "t">>

\* rejected with a validation error before any upstream invocation
Rejected == pc = "failed" /\ error.status = 422 /\ outcomes = <<>>

\* accepted: the validation let the request through
Accepted == pc \in {"dispatch", "done"} \/ (pc = "failed" /\ outcomes /= <<>>)

\* the ranges as documented: 0 <= temperature <= 5, 0 < p <= 0.99,
\* max_tokens >= 1
DocumentedRanges(ps) ==
    /\ 0 <= ps.temperature /\ ps.temperature <= 500
    /\ 0 < ps.p /\ ps.p <= 99
    /\ ps.max_tokens >= 1

C31_InvokesBeforeEnding ==
    (request.well_formed /\ Catalogued /\ pc \in {"done", "failed"}) =>
        invocations >= 1

TaskReturned(t) == batch.tasks[t].pc = "returned"

(* C32: with max_retries = m, a chat_coroutine task starts at most m       *)
(* requests; a result exists only once the task has returned, and a        *)
(* returned response is the response to the task's own input, obtained by  *)
(* the request that followed the failed ones, with none started after it;  *)
(* a returned task holds None exactly when m attempts failed; the gathered *)
(* responses are one per input, the result of task t at position t.        *)
C32_BoundedAttemptsOrderedResults ==
    pc = "batch" =>
        /\ \A t \in Tasks :
            LET task == batch.tasks[t]
            IN  /\ task.started <= batch.max_retries
                /\ task.failed <= task.started
                /\ task.result /= Pending => TaskReturned(t)
                /\ TaskReturned(t) =>
                    /\ task.result \in {NoneRec, ResponseTo(batch.inputs[t])}
                    /\ task.result = NoneRec <=> task.failed = batch.max_retries
                    /\ task.result /= NoneRec => task.started = task.failed + 1
                    /\ task.result = NoneRec => task.started = task.failed
        /\ batch.gathered =>
            /\ Len(batch.responses) = Len(batch.inputs)
            /\ \A t \in Tasks : batch.responses[t] = batch.tasks[t].result

\* two inputs gathered: the first gave up after m failures, the second
\* succeeded on its last attempt
C32_Witness ==
    /\ pc = "batch"
    /\ batch.gathered
    /\ batch.max_retries = MaxBatchRetries
    /\ batch.responses = <<NoneRec, ResponseTo(2)>>
    /\ batch.tasks[2].failed = MaxBatchRetries - 1

(* C33: in every step of the batch client, whatever the interleaving of    *)
(* the tasks: a task that starts a request leaves pause cleared, and if    *)
(* pause was set it is a task that had been waiting and it also resets     *)
(* failed_requests to 0; a failure that brings failed_requests to 5 or     *)
(* more sets pause; a task that begins an attempt while pause is set goes  *)
(* to wait and starts nothing; a task that stops waiting clears pause,     *)
(* resets failed_requests and only then starts its request.                *)
C33_NoRequestWhilePaused ==
    [][pc = "batch" =>
        /\ \A t \in Tasks :
            LET task == batch.tasks[t]
                task_next == batch'.tasks[t]
            IN  /\ task_next.started > task.started =>
                    /\ ~llm'.pause
                    /\ llm.pause =>
                        /\ task.pc = "sleep60"
                        /\ llm'.failed_requests = 0
                /\ (task.pc = "loop" /\ task_next.pc /= "loop"
                        /\ task.i < batch.max_retries /\ llm.pause) =>
                    /\ task_next.pc = "sleep60"
                    /\ task_next.started = task.started
                    /\ llm' = llm
                /\ (task.pc = "sleep60" /\ task_next.pc /= "sleep60") =>
                    /\ task_next.pc = "request"
                    /\ task_next.started = task.started + 1
                    /\ llm' = [failed_requests |-> 0, pause |-> FALSE]
        /\ (llm'.failed_requests > llm.failed_requests
                /\ llm'.failed_requests >= PauseThreshold) => llm'.pause
    ]_vars

\* the first task gave up after three failures, the second failed twice,
\* which set pause; its third attempt waited, reset the counters and is
\* now in its request
C33_Witness ==
    /\ pc = "batch"
    /\ Len(batch.tasks) = 2
    /\ batch.tasks[1].failed = 3
    /\ batch.tasks[2].failed = 2
    /\ batch.tasks[2].pc = "request"
    /\ batch.tasks[2].started = 3
    /\ llm = [failed_requests |-> 0, pause |-> FALSE]

====
